---------------------------- MODULE Spec2Model ----------------------------
(***************************************************************************)
(* A model of prec/textutils.py: the Documents stream and its tokenizer,   *)
(* the vocabulary / sub_vocabulary / corpus pipeline over a gensim         *)
(* Dictionary, and the two corpus utilities merge_documents and            *)
(* corpus_histogram.                                                       *)
(*                                                                         *)
(* Representation.  A character is its code point, a word or token is the  *)
(* sequence of its code points ("c2" is <<99, 50>>), so that joining with  *)
(* '_' (95), the regular expression ^[A-Za-z_]*$ and Python's ordering of  *)
(* strings are computed, not assumed.  A line of the source is either a    *)
(* text line, given by what nltk's sentence and word tokenizers and the    *)
(* stopword filter make of it (a sequence of sentences, each a sequence of *)
(* words), or a line on which tokenization raises (a bytes object, whose   *)
(* replace('\n','') is a TypeError).  Python's None is the string "None".  *)
(***************************************************************************)
EXTENDS Integers, Sequences, FiniteSets, TLC

VARIABLES
    tok,         \* string2tokens: the call's arguments and its result
    docs,        \* a Documents object: iter_object, counter, n, keep_sents, is_tokenzied
    gen,         \* the generator of Documents.__iter__: active, pass, pos
    yielded,     \* the documents the current pass has yielded, in order
    stderr,      \* the notices the Documents object has printed to sys.stderr
    source,      \* the caller's text_iter_obj of the vocabulary pipeline
    heap,        \* the Dictionary objects, by reference (1..Len(heap))
    dictionary,  \* the caller's variable holding what vocabulary(...) returned
    sub,         \* the caller's variable holding what sub_vocabulary(...) returned
    bow,         \* the caller's variable holding what corpus(...) returned
    last,        \* the last pipeline call: its name, arguments and the state before it
    util         \* the corpus utilities: the call's arguments and its outcome

vars == <<tok, docs, gen, yielded, stderr, source, heap, dictionary, sub, bow, last, util>>

None == "None"

-----------------------------------------------------------------------------
(* Bounds of the model.                                                    *)

\* words per sentence, sentences per line and gram order of the tokenizer runs
MaxWords == 3
MaxSents == 2
MaxN == 3

-----------------------------------------------------------------------------
(* Characters, words, lines.                                               *)

Underscore == <<95>>

W_a == <<97>>
W_b == <<98>>
W_c2 == <<99, 50>>

Max(x, y) == IF x >= y THEN x ELSE y

\* all sequences over S of length at most k
SeqsUpTo(S, k) == UNION {[1..m -> S] : m \in 0..k}

TextLine(sents) == [kind |-> "text", sents |-> sents]

\* a line read from a file opened in binary mode
BytesLine == [kind |-> "bytes", sents |-> <<>>]

\* text_string.replace('\n','') at line 126 (line 94 for string2sents) raises
\* TypeError on a bytes object; on a str neither tokenizer raises
Raises(line) == line.kind # "text"

\* '_'.join(ngram_tuple)
RECURSIVE Join(_)
Join(tuple) ==
    IF Len(tuple) = 0 THEN <<>>
    ELSE IF Len(tuple) = 1 THEN tuple[1]
    ELSE tuple[1] \o Underscore \o Join(Tail(tuple))

\* list(ngrams(tokens_in_sentence, n)) without padding: the windows of n
\* consecutive items, in order
ngrams(tokens, n) ==
    [i \in 1..Max(0, Len(tokens) - n + 1) |-> SubSeq(tokens, i, i + n - 1)]

\* ith_gram_tokens_in_sentence
IthGramBroken(tokens, n) ==
    [i \in 1..Max(0, Len(tokens) - n) |-> Join(ngrams(tokens, n)[i])]

IthGram(tokens, n) ==
    [i \in 1..Len(ngrams(tokens, n)) |-> Join(ngrams(tokens, n)[i])]

\* the loop "for n in range(1, N+1)" over one sentence; acc is the pair of
\* ngram_tokens and ngram_tokens_in_sentence, both extended by the same grams
RECURSIVE GramLoop(_, _, _, _)
GramLoop(tokens, n, N, acc) ==
    IF n > N THEN acc
    ELSE GramLoop(tokens, n + 1, N,
                  [flat |-> acc.flat \o IthGram(tokens, n),
                   sent |-> acc.sent \o IthGram(tokens, n)])

\* the loop "for sent in sent_tokenize(...)"; acc is the pair of ngram_tokens
\* and ngram_tokens_sents
RECURSIVE SentLoop(_, _, _, _)
SentLoop(sents, i, N, acc) ==
    IF i > Len(sents) THEN acc
    ELSE LET g == GramLoop(sents[i], 1, N, [flat |-> acc.flat, sent |-> <<>>])
         IN  SentLoop(sents, i + 1, N,
                      [flat |-> g.flat, nested |-> Append(acc.nested, g.sent)])

string2tokens(line, N, keep_sents) ==
    LET r == SentLoop(line.sents, 1, N, [flat |-> <<>>, nested |-> <<>>])
    IN  IF keep_sents THEN r.nested ELSE r.flat

\* the sentence strings of the line, unfiltered: a sentence string is shown
\* as the record of the words it holds
string2sents(line) ==
    [i \in 1..Len(line.sents) |-> [sent |-> line.sents[i]]]

-----------------------------------------------------------------------------
(* The tokenizer on its own.                                               *)

TokWords == {W_a, W_c2}
TokSentences == SeqsUpTo(TokWords, MaxWords)
TokLines == {TextLine(s) : s \in SeqsUpTo(TokSentences, MaxSents)}

NoTok == [line |-> None, N |-> 0, keep_sents |-> FALSE,
          called |-> FALSE, nested |-> <<>>, flat |-> <<>>]
NoDocs == [iter_object |-> <<>>, counter |-> 0, n |-> 1,
           keep_sents |-> FALSE, is_tokenzied |-> TRUE]
NoGen == [active |-> FALSE, suspended |-> FALSE, pass |-> 0, pos |-> 0]
NoLast == [op |-> None]
\* a caller's variable not yet bound to a Dictionary object (references are 1, 2, ...)
NoRef == Len(<<>>)
NoBow == [built |-> FALSE, rows |-> <<>>, n |-> NoRef, built_with |-> <<>>]
NoUtil == [op |-> None]

InitTok ==
    /\ tok \in {[line |-> l, N |-> N, keep_sents |-> FALSE, called |-> FALSE,
                 nested |-> <<>>, flat |-> <<>>] : l \in TokLines, N \in 1..MaxN}
    /\ docs = NoDocs /\ gen = NoGen /\ yielded = <<>> /\ stderr = <<>>
    /\ source = <<>> /\ heap = <<>> /\ dictionary = NoRef /\ sub = NoRef
    /\ bow = NoBow /\ last = NoLast /\ util = NoUtil

\* the same line and N tokenized with keep_sents True and with keep_sents False
Tokenize ==
    /\ ~tok.called
    /\ tok' = [tok EXCEPT !.called = TRUE,
                          !.nested = string2tokens(tok.line, tok.N, TRUE),
                          !.flat = string2tokens(tok.line, tok.N, FALSE)]
    /\ UNCHANGED <<docs, gen, yielded, stderr, source, heap, dictionary, sub,
                   bow, last, util>>

NextTok == Tokenize

SpecTok == InitTok /\ [][NextTok]_vars


\* the grams one sentence of m words contributes for orders 1..N
RECURSIVE GramCount(_, _)
GramCount(m, N) == IF N <= 0 THEN 0 ELSE GramCount(m, N - 1) + Max(0, m - N + 1)

\* the words of a token, split at every '_'
RECURSIVE Split(_, _, _)
Split(t, i, cur) ==
    IF i > Len(t) THEN <<cur>>
    ELSE IF t[i] = 95 THEN <<cur>> \o Split(t, i + 1, <<>>)
    ELSE Split(t, i + 1, Append(cur, t[i]))

RECURSIVE Flatten(_)
Flatten(ss) == IF Len(ss) = 0 THEN <<>> ELSE Head(ss) \o Flatten(Tail(ss))

\* C8: without padding, every sentence of m words yields its grams grouped by
\* order 1..N, the i-th gram of order n being the words i..i+n-1 of that
\* sentence joined by '_', sum over n of max(0, m-n+1) tokens in all; the flat
\* result is the concatenation of the nested per-sentence lists; and N=2 on
\* one sentence of two words gives the two unigrams, then the bigram.
C8_GramsBySentenceAndOrder ==
    tok.called =>
        LET sents == tok.line.sents IN
        /\ Len(tok.nested) = Len(sents)
        /\ \A k \in 1..Len(sents) :
              LET m == Len(sents[k]) IN
              /\ Len(tok.nested[k]) = GramCount(m, tok.N)
              /\ \A n \in 1..tok.N : \A i \in 1..Max(0, m - n + 1) :
                    Split(tok.nested[k][GramCount(m, n - 1) + i], 1, <<>>)
                        = SubSeq(sents[k], i, i + n - 1)
        /\ tok.flat = Flatten(tok.nested)
        /\ (tok.N = 2 /\ sents = << <<W_a, W_c2>> >>)
              => tok.flat = <<W_a, W_c2, <<97, 95, 99, 50>> >>

\* two sentences of two words or more, tokenized with N >= 2: a bigram across
\* the sentence boundary would be possible
C8_Witness ==
    /\ tok.called
    /\ tok.N >= 2
    /\ Len(tok.line.sents) = 2
    /\ \A k \in 1..2 : Len(tok.line.sents[k]) >= 2
    /\ Len(tok.flat) > 0

-----------------------------------------------------------------------------
(* The Documents stream.                                                   *)

\* passes over one Documents object, and lines of the short sources
MaxPasses == 2
StreamMaxLines == 3

\* "self.counter % 1000 == 0"
ProgressEvery == 1000

StreamLinePool ==
    { TextLine(<<>>),
      TextLine(<< <<W_a, W_c2>> >>),
      TextLine(<< <<W_a>>, <<W_b, W_a>> >>),
      BytesLine }

\* a source long enough for the progress notice, with two failing lines
LongSource ==
    [i \in 1..(ProgressEvery + 1) |->
        IF i \in {2, ProgressEvery} THEN BytesLine
        ELSE TextLine(<< <<W_a, W_b>> >>)]

\* Documents.__init__
NewDocuments(iter_object, n, keep_sents, is_tokenzied) ==
    [iter_object |-> iter_object, counter |-> 0, n |-> n,
     keep_sents |-> keep_sents, is_tokenzied |-> is_tokenzied]

\* the body of the try statement: what the line tokenizes to
Tokenized(d, line) ==
    IF d.is_tokenzied THEN string2tokens(line, d.n, d.keep_sents)
    ELSE string2sents(line)

\* the try/except of __iter__ for one line, with the counter's current value:
\* the documents it yields and the notice the handler prints
TryTokenizeNoYield(d, line, counter, where) ==
    IF Raises(line)
    THEN [yields |-> <<>>,
          prints |-> <<[kind |-> "fail", shown |-> counter, at |-> where]>>]
    ELSE [yields |-> <<Tokenized(d, line)>>, prints |-> <<>>]

TryTokenize(d, line, counter, where) ==
    IF Raises(line)
    THEN [yields |-> << <<>> >>,
          prints |-> <<[kind |-> "fail", shown |-> counter, at |-> where]>>]
    ELSE [yields |-> <<Tokenized(d, line)>>, prints |-> <<>>]

\* "if self.counter > 0 and self.counter % 1000 == 0: print(...)"
ProgressNotice(counter, where) ==
    IF counter > 0 /\ counter % ProgressEvery = 0
    THEN <<[kind |-> "progress", shown |-> counter, at |-> where]>>
    ELSE <<>>

InitStream ==
    /\ \/ \E src \in SeqsUpTo(StreamLinePool, StreamMaxLines), n \in 1..2,
             keep \in BOOLEAN, is_tok \in BOOLEAN :
             docs = NewDocuments(src, n, keep, is_tok)
       \/ docs = NewDocuments(LongSource, 1, FALSE, TRUE)
    /\ gen = NoGen /\ yielded = <<>> /\ stderr = <<>>
    /\ tok = NoTok /\ source = <<>> /\ heap = <<>> /\ dictionary = NoRef
    /\ sub = NoRef /\ bow = NoBow /\ last = NoLast /\ util = NoUtil

\* iter(documents): a new generator over the (restartable) line source
IterStart ==
    /\ ~gen.active
    /\ gen.pass < MaxPasses
    /\ gen' = [active |-> TRUE, suspended |-> FALSE, pass |-> gen.pass + 1, pos |-> 0]
    /\ yielded' = <<>>
    /\ UNCHANGED <<tok, docs, stderr, source, heap, dictionary, sub, bow, last, util>>

\* the counter once a generator suspended at its yield resumes: "self.counter += 1"
Resumed == docs.counter + (IF gen.suspended THEN 1 ELSE 0)

\* next(generator) with a line left: up to the yield of that line's document
IterYield ==
    /\ gen.active
    /\ gen.pos < Len(docs.iter_object)
    /\ LET line == docs.iter_object[gen.pos + 1]
           where == [pass |-> gen.pass, index |-> gen.pos]
           r == TryTokenize(docs, line, Resumed, where)
       IN  /\ docs' = [docs EXCEPT !.counter = Resumed]
           /\ stderr' = stderr \o ProgressNotice(Resumed, where) \o r.prints
           /\ yielded' = yielded \o r.yields
           /\ gen' = [gen EXCEPT !.suspended = TRUE, !.pos = gen.pos + 1]
    /\ UNCHANGED <<tok, source, heap, dictionary, sub, bow, last, util>>

\* next(generator) with no line left: StopIteration
IterStop ==
    /\ gen.active
    /\ gen.pos = Len(docs.iter_object)
    /\ docs' = [docs EXCEPT !.counter = Resumed]
    /\ gen' = [gen EXCEPT !.active = FALSE, !.suspended = FALSE]
    /\ UNCHANGED <<tok, yielded, stderr, source, heap, dictionary, sub, bow, last, util>>

NextStream == IterStart \/ IterYield \/ IterStop

SpecStream == InitStream /\ [][NextStream]_vars

\* what the claim expects of a line: the empty document if it fails, what it
\* tokenizes to otherwise
ExpectedDocument(d, line) ==
    IF line.kind = "bytes" THEN <<>>
    ELSE IF d.is_tokenzied THEN string2tokens(line, d.n, d.keep_sents)
    ELSE string2sents(line)

\* C3: a pass yields one document per line consumed, the i-th for the i-th
\* line, the empty document for a failing line; a finished pass has yielded
\* exactly as many documents as the source has lines.
C3_OneDocumentPerLine ==
    gen.pass > 0 =>
        /\ Len(yielded) = gen.pos
        /\ \A i \in 1..Len(yielded) :
              i <= Len(docs.iter_object)
                 /\ yielded[i] = ExpectedDocument(docs, docs.iter_object[i])
        /\ ~gen.active => Len(yielded) = Len(docs.iter_object)

\* a finished pass over a source with a failing line followed by a text line
C3_Witness ==
    /\ gen.pass > 0 /\ ~gen.active
    /\ \E i \in 1..(Len(docs.iter_object) - 1) :
          /\ Raises(docs.iter_object[i])
          /\ ~Raises(docs.iter_object[i + 1])
          /\ yielded[i + 1] # <<>>

\* C9: every failure notice shows the zero-based index, within the pass that
\* printed it, of the failing line, in every pass over the Documents object;
\* and the progress notice is printed once at every positive multiple of 1000
\* documents of the pass, and only there.
C9_NoticesCountWithinThePass ==
    /\ \A k \in 1..Len(stderr) :
          /\ stderr[k].shown = stderr[k].at.index
          /\ stderr[k].kind = "progress" =>
                stderr[k].at.index > 0 /\ stderr[k].at.index % ProgressEvery = 0
    /\ \A p \in 1..gen.pass :
          \A i \in 1..((IF p < gen.pass THEN Len(docs.iter_object) ELSE gen.pos) - 1) :
             i % ProgressEvery = 0 =>
                Cardinality({k \in 1..Len(stderr) :
                                /\ stderr[k].kind = "progress"
                                /\ stderr[k].at = [pass |-> p, index |-> i]}) = 1

-----------------------------------------------------------------------------
(* gensim's Dictionary, as far as the pipeline uses it: token2id, the      *)
(* lazily rebuilt id2token and the document frequencies dfs.               *)

Range(f) == {f[x] : x \in DOMAIN f}

\* Python's s < t on strings: lexicographic by code point
RECURSIVE StrLess(_, _)
StrLess(s, t) ==
    IF Len(t) = 0 THEN FALSE
    ELSE IF Len(s) = 0 THEN TRUE
    ELSE IF s[1] # t[1] THEN s[1] < t[1]
    ELSE StrLess(Tail(s), Tail(t))

\* sorted(S) for a set of strings
RECURSIVE SortedTokens(_)
SortedTokens(S) ==
    IF S = {} THEN <<>>
    ELSE LET m == CHOOSE x \in S : \A y \in S \ {x} : StrLess(x, y)
         IN  <<m>> \o SortedTokens(S \ {m})

\* sorted(S) for a set of integers
RECURSIVE SortedInts(_)
SortedInts(S) ==
    IF S = {} THEN <<>>
    ELSE LET m == CHOOSE x \in S : \A y \in S : x <= y
         IN  <<m>> \o SortedInts(S \ {m})

Occurrences(document, w) == Cardinality({i \in 1..Len(document) : document[i] = w})

EmptyDictionary == [token2id |-> <<>>, id2token |-> <<>>, dfs |-> <<>>]

\* "token2id[w] = len(token2id)" for the missing tokens, in sorted order
RECURSIVE AssignIds(_, _)
AssignIds(token2id, missing) ==
    IF Len(missing) = 0 THEN token2id
    ELSE AssignIds(token2id @@ (Head(missing) :> Cardinality(DOMAIN token2id)),
                   Tail(missing))

\* Dictionary.doc2bow(document, allow_update): the dictionary after the call
\* and the sorted (id, count) pairs it returns
doc2bow(d, document, allow_update) ==
    LET counted == Range(document)
        missing == SortedTokens(counted \ DOMAIN d.token2id)
        token2id == IF allow_update THEN AssignIds(d.token2id, missing) ELSE d.token2id
        known == counted \cap DOMAIN token2id
        ids == {token2id[w] : w \in known}
        freq(id) == Occurrences(document, CHOOSE w \in known : token2id[w] = id)
        sorted_ids == SortedInts(ids)
    IN  [dict |-> IF allow_update
                  THEN [token2id |-> token2id,
                        id2token |-> d.id2token,
                        dfs |-> [id \in DOMAIN d.dfs \cup ids |->
                                    (IF id \in DOMAIN d.dfs THEN d.dfs[id] ELSE 0)
                                    + (IF id \in ids THEN 1 ELSE 0)]]
                  ELSE d,
         bow |-> [k \in 1..Len(sorted_ids) |-> <<sorted_ids[k], freq(sorted_ids[k])>>]]

\* corpora.Dictionary(documents): add_documents, doc2bow(allow_update=True) each
\* (its pruning beyond prune_at = 2,000,000 tokens is out of the sources' reach)
RECURSIVE add_documents(_, _)
add_documents(d, documents) ==
    IF Len(documents) = 0 THEN d
    ELSE add_documents(doc2bow(d, Head(documents), TRUE).dict, Tail(documents))

\* Dictionary.compactify: ids renumbered 0..k-1 in their order, id2token reset
NoCompactify(d) == d

compactify(d) ==
    LET idmap(x) == Cardinality({y \in Range(d.token2id) : y < x})
    IN  [token2id |-> [t \in DOMAIN d.token2id |-> idmap(d.token2id[t])],
         id2token |-> <<>>,
         dfs |-> [n \in {idmap(x) : x \in DOMAIN d.dfs} |->
                     d.dfs[CHOOSE x \in DOMAIN d.dfs : idmap(x) = n]]]

\* Dictionary.filter_tokens(bad_ids): the ids dropped from token2id and dfs,
\* then (inside gensim) compactify
filter_tokens(d, bad_ids) ==
    compactify([token2id |-> [t \in {u \in DOMAIN d.token2id : d.token2id[u] \notin bad_ids}
                                 |-> d.token2id[t]],
                id2token |-> d.id2token,
                dfs |-> [id \in DOMAIN d.dfs \ bad_ids |-> d.dfs[id]]])

\* Dictionary.__getitem__: id2token rebuilt from token2id when their lengths
\* differ; the lookup is a KeyError for an id it does not hold
WithId2Token(d) ==
    IF Cardinality(DOMAIN d.id2token) # Cardinality(DOMAIN d.token2id)
    THEN [d EXCEPT !.id2token =
             [id \in Range(d.token2id) |-> CHOOSE t \in DOMAIN d.token2id : d.token2id[t] = id]]
    ELSE d

getitem(d, id) ==
    IF id \in DOMAIN WithId2Token(d).id2token
    THEN WithId2Token(d).id2token[id]
    ELSE "KeyError"

\* re.match('^[A-Za-z_]*$', token): letters and '_' only, '$' also matching
\* before a final newline
ReMatch(token) ==
    LET body == IF Len(token) > 0 /\ token[Len(token)] = 10
                THEN SubSeq(token, 1, Len(token) - 1) ELSE token
    IN  \A i \in 1..Len(body) :
           \/ body[i] \in 65..90
           \/ body[i] \in 97..122
           \/ body[i] = 95

-----------------------------------------------------------------------------
(* The pipeline: vocabulary, sub_vocabulary, corpus.                       *)

\* list(Documents(...)): one full pass of a new Documents object
RECURSIVE IterAll(_, _, _)
IterAll(d, i, counter) ==
    IF i > Len(d.iter_object) THEN <<>>
    ELSE TryTokenize(d, d.iter_object[i], counter, [pass |-> 1, index |-> i - 1]).yields
            \o IterAll(d, i + 1, counter + 1)

\* "docfreq <= min_term_freq"
LowFreqStrict(docfreq, min_term_freq) == docfreq < min_term_freq

LowFreq(docfreq, min_term_freq) == docfreq <= min_term_freq

\* vocabulary(text_iter_obj, min_term_freq, n): the new Dictionary
vocabulary(text_iter_obj, min_term_freq, n) ==
    LET documents == IterAll(NewDocuments(text_iter_obj, n, FALSE, TRUE), 1, 0)
        built == add_documents(EmptyDictionary, documents)
        nonchar_ids == {built.token2id[t] : t \in {u \in DOMAIN built.token2id : ~ReMatch(u)}}
        lowfreq_ids == {id \in DOMAIN built.dfs : LowFreq(built.dfs[id], min_term_freq)}
    IN  compactify(filter_tokens(built, lowfreq_ids \cup nonchar_ids))

\* the ids sub_vocabulary removes
RemoveIdsListed(d, ngrams_list, by_key) ==
    IF by_key THEN Range(d.token2id) \cap ngrams_list
    ELSE {d.token2id[t] : t \in DOMAIN d.token2id \cap ngrams_list}

RemoveIds(d, ngrams_list, by_key) ==
    IF by_key THEN Range(d.token2id) \ ngrams_list
    ELSE {d.token2id[t] : t \in DOMAIN d.token2id \ ngrams_list}

\* sub_vocabulary(dictionary, ngrams_list, by_key) on the object at ref: the
\* heap after the call and the reference returned
SubVocabularyOfACopy(h, ref, ngrams_list, by_key) ==
    [heap |-> Append(h, compactify(filter_tokens(h[ref], RemoveIds(h[ref], ngrams_list, by_key)))),
     ret |-> Len(h) + 1]

sub_vocabulary(h, ref, ngrams_list, by_key) ==
    [heap |-> [h EXCEPT ![ref] =
                  compactify(filter_tokens(h[ref], RemoveIds(h[ref], ngrams_list, by_key)))],
     ret |-> ref]

\* "[ dictionary.doc2bow(doc) for doc in docs ]": the rows and the dictionary after
RECURSIVE BowLoop(_, _, _)
BowLoop(d, documents, allow_update) ==
    IF Len(documents) = 0 THEN [dict |-> d, rows |-> <<>>]
    ELSE LET r == doc2bow(d, Head(documents), allow_update)
             rest == BowLoop(r.dict, Tail(documents), allow_update)
         IN  [dict |-> rest.dict, rows |-> <<r.bow>> \o rest.rows]

\* corpus(text_iter_obj, dictionary, n)
CorpusUpdatingDictionary(text_iter_obj, d, n) ==
    BowLoop(d, IterAll(NewDocuments(text_iter_obj, n, FALSE, TRUE), 1, 0), TRUE)

corpus(text_iter_obj, d, n) ==
    BowLoop(d, IterAll(NewDocuments(text_iter_obj, n, FALSE, TRUE), 1, 0), FALSE)

\* lines per source, and the largest min_term_freq tried
VocMaxLines == 2
MaxMinTermFreq == 2

VocLinePool ==
    { TextLine(<< <<W_a, W_b>> >>),
      TextLine(<< <<W_a, W_a, W_c2>>, <<W_b>> >>),
      TextLine(<< <<W_b, W_c2>> >>),
      BytesLine }

\* allow-lists: terms (one of them in no vocabulary) and ids (one of them
\* beyond every vocabulary)
W_zz == <<122, 122>>
AllowTerms == SUBSET {W_a, W_b, W_zz}
AllowKeys == SUBSET {0, 2, 7}

Init ==
    /\ source \in SeqsUpTo(VocLinePool, VocMaxLines)
    /\ heap = <<>> /\ dictionary = NoRef /\ sub = NoRef /\ bow = NoBow
    /\ last = NoLast
    /\ tok = NoTok /\ docs = NoDocs /\ gen = NoGen /\ yielded = <<>>
    /\ stderr = <<>> /\ util = NoUtil

\* dictionary = vocabulary(source, min_term_freq, n)
Vocabulary ==
    /\ dictionary = NoRef
    /\ \E min_term_freq \in 0..MaxMinTermFreq, n \in 1..2 :
          /\ heap' = Append(heap, vocabulary(source, min_term_freq, n))
          /\ dictionary' = Len(heap) + 1
          /\ last' = [op |-> "vocabulary", min_term_freq |-> min_term_freq, n |-> n]
    /\ UNCHANGED <<tok, docs, gen, yielded, stderr, source, sub, bow, util>>

\* sub = sub_vocabulary(dictionary, ngrams_list, by_key)
SubVocabulary ==
    /\ dictionary # NoRef
    /\ \E by_key \in BOOLEAN :
       \E ngrams_list \in (IF by_key THEN AllowKeys ELSE AllowTerms) :
          LET r == sub_vocabulary(heap, dictionary, ngrams_list, by_key)
          IN  /\ heap' = r.heap
              /\ sub' = r.ret
              /\ last' = [op |-> "sub_vocabulary", arg |-> dictionary,
                          pre |-> heap[dictionary],
                          ngrams_list |-> ngrams_list, by_key |-> by_key]
    /\ UNCHANGED <<tok, docs, gen, yielded, stderr, source, dictionary, bow, util>>

\* bow = corpus(source, dictionary, n)
Corpus ==
    /\ dictionary # NoRef
    /\ \E n \in 1..2 :
          LET r == corpus(source, heap[dictionary], n)
          IN  /\ heap' = [heap EXCEPT ![dictionary] = r.dict]
              /\ bow' = [built |-> TRUE, rows |-> r.rows, n |-> n, built_with |-> heap[dictionary].token2id]
              /\ last' = [op |-> "corpus", n |-> n, pre |-> heap[dictionary]]
    /\ UNCHANGED <<tok, docs, gen, yielded, stderr, source, dictionary, sub, util>>

\* dictionary[id] for some id: its lasting effect is the rebuilt id2token
Lookup ==
    /\ dictionary # NoRef
    /\ heap' = [heap EXCEPT ![dictionary] = WithId2Token(@)]
    /\ UNCHANGED <<tok, docs, gen, yielded, stderr, source, dictionary, sub, bow, last, util>>

Next == Vocabulary \/ SubVocabulary \/ Corpus \/ Lookup

Spec == Init /\ [][Next]_vars

\* the document the stream yields for a line of the pipeline's source
StreamedDocument(line, n) ==
    IF line.kind = "bytes" THEN <<>> ELSE string2tokens(line, n, FALSE)

\* the number of documents of the source that hold the token at least once
DocFreq(t, n) ==
    Cardinality({i \in 1..Len(source) : t \in Range(StreamedDocument(source[i], n))})

OnlyLettersAndUnderscores(t) ==
    \A i \in 1..Len(t) : t[i] \in (65..90) \cup (97..122) \cup {95}

StreamedTokens(n) == UNION {Range(StreamedDocument(source[i], n)) : i \in 1..Len(source)}

\* the objects the caller's variables refer to
Bound == {dictionary, sub} \ {NoRef}

\* C1: after a vocabulary build and any sub_vocabulary calls, the ids of the
\* vocabulary are exactly 0..k-1 for its k terms, no two terms share an id,
\* and looking an id up gives back the term that maps to it, and conversely.
C1_IdsContiguous ==
    \A ref \in Bound :
        LET d == heap[ref]
            k == Cardinality(DOMAIN d.token2id)
        IN  /\ Range(d.token2id) = 0..(k - 1)
            /\ \A t, u \in DOMAIN d.token2id : d.token2id[t] = d.token2id[u] => t = u
            /\ \A t \in DOMAIN d.token2id : getitem(d, d.token2id[t]) = t
            /\ \A id \in 0..(k - 1) :
                  getitem(d, id) \in DOMAIN d.token2id /\ d.token2id[getitem(d, id)] = id

\* a sub_vocabulary call that removed a term below a surviving one, whose id
\* therefore changed
C1_Witness ==
    /\ last.op = "sub_vocabulary"
    /\ sub # NoRef
    /\ \E t \in DOMAIN heap[sub].token2id :
          t \in DOMAIN last.pre.token2id /\ last.pre.token2id[t] # heap[sub].token2id[t]

\* C2: a token is a term of the vocabulary that vocabulary(...) returns iff it
\* occurs in a streamed document, the number of documents holding it is
\* greater than min_term_freq, and it is made of ASCII letters and
\* underscores only.
C2_VocabularyTerms ==
    last.op = "vocabulary" =>
        \A t \in StreamedTokens(last.n) \cup DOMAIN heap[dictionary].token2id \cup {W_zz} :
            t \in DOMAIN heap[dictionary].token2id
                <=> /\ t \in StreamedTokens(last.n)
                    /\ DocFreq(t, last.n) > last.min_term_freq
                    /\ OnlyLettersAndUnderscores(t)

\* min_term_freq = 1: a term twice in its only document is absent, a term of
\* two documents is present, a token with a digit in two documents is absent
C2_Witness ==
    /\ last.op = "vocabulary" /\ last.min_term_freq = 1
    /\ \E i \in 1..Len(source) :
          /\ ~Raises(source[i])
          /\ Occurrences(StreamedDocument(source[i], last.n), W_a) = 2
    /\ DocFreq(W_a, last.n) = 1 /\ W_a \notin DOMAIN heap[dictionary].token2id
    /\ DocFreq(W_b, last.n) = 2 /\ W_b \in DOMAIN heap[dictionary].token2id
    /\ DocFreq(W_c2, last.n) = 2 /\ W_c2 \notin DOMAIN heap[dictionary].token2id

\* C4: corpus(...) returns one row per line, in order; the row of a line holds
\* exactly one (id, count) pair for every vocabulary term of the line's
\* document, the count being the term's occurrences, and nothing else;
\* the vocabulary is as it was before the call; and the row of a document of
\* vocabulary terms only decodes to the document's counts.
C4_CorpusRows ==
    last.op = "corpus" =>
        LET d == heap[dictionary] IN
        /\ d.token2id = last.pre.token2id /\ d.dfs = last.pre.dfs
        /\ Len(bow.rows) = Len(source)
        /\ \A i \in 1..Len(source) :
              LET doc == StreamedDocument(source[i], bow.n)
                  row == bow.rows[i]
              IN  /\ \A t \in Range(doc) \cap DOMAIN d.token2id :
                        Cardinality({k \in 1..Len(row) : row[k][1] = d.token2id[t]}) = 1
                        /\ <<d.token2id[t], Occurrences(doc, t)>> \in Range(row)
                  /\ \A k \in 1..Len(row) :
                        \E t \in Range(doc) \cap DOMAIN d.token2id : row[k][1] = d.token2id[t]
                  /\ Range(doc) \subseteq DOMAIN d.token2id =>
                        \A t \in Range(doc) :
                            \E k \in 1..Len(row) :
                                getitem(d, row[k][1]) = t /\ row[k][2] = Occurrences(doc, t)

\* a row with a count of two and a token of the line that is no vocabulary term
C4_Witness ==
    /\ last.op = "corpus"
    /\ \E i \in 1..Len(source) :
          /\ \E k \in 1..Len(bow.rows[i]) : bow.rows[i][k][2] = 2
          /\ \E t \in Range(StreamedDocument(source[i], bow.n)) :
                t \notin DOMAIN heap[dictionary].token2id

\* the terms of the allow-list's choice
Allowed(d, ngrams_list, by_key) ==
    IF by_key THEN {t \in DOMAIN d.token2id : d.token2id[t] \in ngrams_list}
    ELSE {t \in DOMAIN d.token2id : t \in ngrams_list}

\* C5: the vocabulary sub_vocabulary returns holds exactly the terms of the
\* input vocabulary that the allow-list names: by surface form, or with
\* by_key by their id before the call; entries naming nothing add nothing.
C5_SubVocabularyTerms ==
    last.op = "sub_vocabulary" =>
        DOMAIN heap[sub].token2id = Allowed(last.pre, last.ngrams_list, last.by_key)

\* an allow-list with an entry that is not in the vocabulary, one term kept
\* and one removed
C5_Witness ==
    /\ last.op = "sub_vocabulary"
    /\ \E x \in last.ngrams_list :
          IF last.by_key THEN x \notin Range(last.pre.token2id)
          ELSE x \notin DOMAIN last.pre.token2id
    /\ DOMAIN heap[sub].token2id # {}
    /\ DOMAIN heap[sub].token2id # DOMAIN last.pre.token2id

\* the term an id of the corpus stood for when the corpus was built
BuiltTerm(id) == CHOOSE t \in DOMAIN bow.built_with : bow.built_with[t] = id

\* C10: sub_vocabulary returns the object it was given, and that object, which
\* the caller's original variable still refers to, now holds the reduced
\* term set; no other Dictionary object comes to be.
C10_SubVocabularyInPlace ==
    last.op = "sub_vocabulary" =>
        /\ sub = last.arg /\ sub = dictionary
        /\ Len(heap) = 1
        /\ DOMAIN heap[dictionary].token2id \subseteq DOMAIN last.pre.token2id
        /\ DOMAIN heap[dictionary].token2id
              = Allowed(last.pre, last.ngrams_list, last.by_key)

\* a corpus built before the call, of which one id now decodes to another
\* term than it was built from and one id is no longer in the vocabulary
C10_Witness ==
    /\ last.op = "sub_vocabulary"
    /\ bow.built /\ bow.built_with = last.pre.token2id
    /\ \E i \in 1..Len(bow.rows) : \E k \in 1..Len(bow.rows[i]) :
          /\ getitem(heap[dictionary], bow.rows[i][k][1]) # "KeyError"
          /\ getitem(heap[dictionary], bow.rows[i][k][1]) # BuiltTerm(bow.rows[i][k][1])
    /\ \E i \in 1..Len(bow.rows) : \E k \in 1..Len(bow.rows[i]) :
          getitem(heap[dictionary], bow.rows[i][k][1]) = "KeyError"

-----------------------------------------------------------------------------
(* The corpus utilities: merge_documents and corpus_histogram.             *)

\* documents per corpus handed to the utilities
UtilMaxDocs == 3

\* the rows (sorted (id, value) pairs) the utilities are tried on
UtilRowPool ==
    { <<>>,
      << <<0, 1>> >>,
      << <<0, 3>>, <<1, 1>> >> }

UtilDocIds == {1, 2}

\* the vocabulary the utilities are given: "a" is 0, "b" is 1
UtilDictionary ==
    [token2id |-> (W_a :> 0) @@ (W_b :> 1), id2token |-> <<>>, dfs |-> (0 :> 2) @@ (1 :> 2)]

NoReturn == [is_none |-> TRUE, docs_ids |-> <<>>, corpus |-> <<>>,
             ngram_dist |-> <<>>, sorted_ngram |-> <<>>]

InitUtil ==
    /\ \E m \in 0..UtilMaxDocs :
       \E c \in [1..m -> UtilRowPool], ids \in [1..m -> UtilDocIds] :
          util = [op |-> None, corpus |-> c, docs_ids |-> ids, dictionary |-> UtilDictionary,
                  sort_by |-> None, N |-> NoRef, raised |-> None, printed |-> <<>>,
                  ordered_indice |-> <<>>, ret |-> NoReturn]
    /\ tok = NoTok /\ docs = NoDocs /\ gen = NoGen /\ yielded = <<>> /\ stderr = <<>>
    /\ source = <<>> /\ heap = <<>> /\ dictionary = NoRef /\ sub = NoRef
    /\ bow = NoBow /\ last = NoLast

\* np.argsort(docs_ids): a permutation that puts docs_ids in ascending order;
\* the default kind is not stable, so any such permutation may come out
ArgSorts(docs_ids) ==
    {p \in [1..Len(docs_ids) -> 1..Len(docs_ids)] :
        /\ \A i, j \in 1..Len(docs_ids) : i # j => p[i] # p[j]
        /\ \A i, j \in 1..Len(docs_ids) : i < j => docs_ids[p[i]] <= docs_ids[p[j]]}

\* merge_documents(corpus, dictionary, docs_ids): the rows reordered, their
\* shape printed, and the function ends without a return statement
MergeDocuments ==
    /\ \E ordered_indice \in ArgSorts(util.docs_ids) :
          LET reordered_docs_ids == [i \in 1..Len(ordered_indice) |-> util.docs_ids[ordered_indice[i]]]
              reordered_sparse_corpus == [i \in 1..Len(ordered_indice) |-> util.corpus[ordered_indice[i]]]
          IN  util' = [util EXCEPT
                          !.op = "merge_documents",
                          !.sort_by = None, !.N = NoRef,
                          !.ordered_indice = ordered_indice,
                          !.printed = <<Len(reordered_sparse_corpus),
                                        Cardinality(DOMAIN util.dictionary.token2id)>>,
                          !.raised = None,
                          !.ret = NoReturn]
    /\ UNCHANGED <<tok, docs, gen, yielded, stderr, source, heap, dictionary, sub, bow, last>>

\* whether a Python 3 dict (and so the defaultdict ngram_dist) has the method
\* iteritems; the module runs under Python 3 only (print(..., file=...),
\* str.maketrans)
HasIteritems == FALSE

\* the ids of the corpus, in the order the loop at lines 264-266 meets them
RECURSIVE PairsInOrder(_)
PairsInOrder(c) ==
    IF Len(c) = 0 THEN <<>> ELSE Head(c) \o PairsInOrder(Tail(c))

\* corpus_histogram(corpus, dictionary, sort_by, show=False, N): a KeyError
\* from dictionary[ngram_id] for an id the vocabulary lacks, otherwise the
\* AttributeError of ngram_dist.iteritems() at line 269
CorpusHistogram ==
    /\ \E sort_by \in {"count", "weighted_sum"}, N \in {1, 10} :
          LET pairs == PairsInOrder(util.corpus)
              unknown == \E k \in 1..Len(pairs) : getitem(util.dictionary, pairs[k][1]) = "KeyError"
          IN  util' = [util EXCEPT
                          !.op = "corpus_histogram",
                          !.sort_by = sort_by, !.N = N,
                          !.dictionary = IF Len(pairs) > 0 THEN WithId2Token(@) ELSE @,
                          !.ordered_indice = <<>>, !.printed = <<>>,
                          !.raised = IF unknown THEN "KeyError"
                                     ELSE IF ~HasIteritems THEN "AttributeError"
                                     ELSE None,
                          !.ret = NoReturn]
    /\ UNCHANGED <<tok, docs, gen, yielded, stderr, source, heap, dictionary, sub, bow, last>>

NextUtil == MergeDocuments \/ CorpusHistogram

SpecUtil == InitUtil /\ [][NextUtil]_vars

\* the values of a term in the documents of the corpus that hold it
RECURSIVE ValuesOf(_, _)
ValuesOf(c, id) ==
    IF Len(c) = 0 THEN <<>>
    ELSE (IF \E k \in 1..Len(Head(c)) : Head(c)[k][1] = id
          THEN <<(CHOOSE pair \in Range(Head(c)) : pair[1] = id)[2]>>
          ELSE <<>>) \o ValuesOf(Tail(c), id)

RECURSIVE Sum(_)
Sum(vs) == IF Len(vs) = 0 THEN 0 ELSE Head(vs) + Sum(Tail(vs))

\* the terms that are in at least two documents of the corpus
FrequentTerms ==
    {t \in DOMAIN util.dictionary.token2id :
        Len(ValuesOf(util.corpus, util.dictionary.token2id[t])) >= 2}

Score(t) ==
    IF util.sort_by = "count" THEN Len(ValuesOf(util.corpus, util.dictionary.token2id[t]))
    ELSE Sum(ValuesOf(util.corpus, util.dictionary.token2id[t]))

\* C6: corpus_histogram completes without error for every corpus and returns
\* the value lists of exactly the terms of at least 2 documents, and at most
\* N of those terms ranked by non-increasing document count ('count') or
\* summed value ('weighted_sum'); both are empty when no term is in 2
\* documents.
C6_HistogramCompletes ==
    util.op = "corpus_histogram" =>
        /\ util.raised = None
        /\ ~util.ret.is_none
        /\ DOMAIN util.ret.ngram_dist = FrequentTerms
        /\ \A t \in FrequentTerms :
              util.ret.ngram_dist[t] = ValuesOf(util.corpus, util.dictionary.token2id[t])
        /\ Len(util.ret.sorted_ngram) <= util.N
        /\ \A k \in 1..Len(util.ret.sorted_ngram) :
              /\ util.ret.sorted_ngram[k][1] \in FrequentTerms
              /\ util.ret.sorted_ngram[k][2] = Score(util.ret.sorted_ngram[k][1])
              /\ k > 1 => util.ret.sorted_ngram[k - 1][2] >= util.ret.sorted_ngram[k][2]
        /\ FrequentTerms = {} => util.ret.ngram_dist = <<>> /\ util.ret.sorted_ngram = <<>>

\* the positions of the corpus whose Document-ID is id, in their order
RECURSIVE RowsOf(_, _, _)
RowsOf(c, ids, id) ==
    IF Len(c) = 0 THEN <<>>
    ELSE (IF Head(ids) = id THEN <<Head(c)>> ELSE <<>>) \o RowsOf(Tail(c), Tail(ids), id)

\* rows summed term-wise into one sorted row
SummedRow(rows) ==
    LET ids == {pair[1] : pair \in UNION {Range(rows[i]) : i \in 1..Len(rows)}}
        total(id) == Sum(ValuesOf(rows, id))
        sorted_ids == SortedInts(ids)
    IN  [k \in 1..Len(sorted_ids) |-> <<sorted_ids[k], total(sorted_ids[k])>>]

\* C7: merge_documents returns the deduplicated Document-IDs in ascending
\* order together with the merged corpus, whose row for a Document-ID is the
\* term-wise sum of the rows of that Document-ID.
C7_MergeReturnsMergedCorpus ==
    util.op = "merge_documents" =>
        LET merged_ids == SortedInts(Range(util.docs_ids)) IN
        /\ ~util.ret.is_none
        /\ util.ret.docs_ids = merged_ids
        /\ util.ret.corpus =
              [k \in 1..Len(merged_ids) |->
                  SummedRow(RowsOf(util.corpus, util.docs_ids, merged_ids[k]))]

=============================================================================
